---------------------------- MODULE Spec2Model ----------------------------
(***************************************************************************)
(* A model of accuradiolib (src/accuradiolib/accuradiolib.py): the         *)
(* embedded-state extractor Service._parse_configuration_from_source, the  *)
(* lazy catalogue enumeration Service._brands / Service.channels /         *)
(* Service.get_channel_by_id, and the Channel projections.                 *)
(*                                                                         *)
(* Text is a sequence of one-character strings, so that str.find, slicing  *)
(* and JSON decoding are computed character by character.  Python values   *)
(* are tagged tuples: <<"null">>, <<"bool", b>>, <<"num", n>>,             *)
(* <<"float", m, e>>, <<"str", chars>>, <<"arr", items>> and               *)
(* <<"obj", pairs>> with pairs a sequence of <<key, value>> in insertion   *)
(* order (a Python dict).                                                  *)
(***************************************************************************)
EXTENDS Integers, Sequences, FiniteSets, TLC

VARIABLES
    text,       \* SpecParse: the page text handed to the extractor
    pieces,     \* SpecParse: how many fragments the text was built from
    res,        \* SpecParse: outcome of the extractor on text, or NotCalled
    service,    \* the Service object: its attributes (url)
    net,        \* Spec: what the upstream server answers to each GET
    gen,        \* Spec: the caller's Service.channels generator
    trace,      \* Spec: GETs issued and channels yielded by that generator
    bgen,       \* Spec: the caller's Service._brands generator
    btrace,     \* Spec: GETs issued by that generator
    ret,        \* outcome of the caller's last call or property read
    started,    \* Spec: enumerations and lookups that began running
    rootGets,   \* Spec: GETs of the root page issued so far
    held,       \* SpecChannel: the Channel object the caller holds
    reads,      \* SpecChannel: media_uri reads made so far
    sweepGets   \* SpecChannel: GETs of the sweeper endpoint issued so far

parseVars == <<text, pieces, res>>
serviceVars == <<net, gen, trace, bgen, btrace, started, rootGets>>
channelVars == <<held, reads, sweepGets>>
vars == <<text, pieces, res, service, net, gen, trace, bgen, btrace, ret, started,
          rootGets, held, reads, sweepGets>>

-----------------------------------------------------------------------------
(* Python values and outcomes *)

JNull == <<"null">>
JBool(b) == <<"bool", b>>
JNum(n) == <<"num", n>>
JFloat(m, e) == <<"float", m, e>>
\* float('nan') and float('inf'): which is "nan" or "inf".
JNonFinite(which) == <<"float", which>>
JStr(s) == <<"str", s>>
JArr(xs) == <<"arr", xs>>
JObj(ps) == <<"obj", ps>>

Tag(v) == v[1]
IsNonFinite(v) == Tag(v) = "float" /\ Len(v) = 2
IsDict(v) == Tag(v) = "obj"

\* A call either returns a value or raises: exc names the exception class, val
\* is the returned value or the exception's argument, calls lists the library
\* calls the handler made, in order.
Return(v, calls) == [exc |-> "none", val |-> v, calls |-> calls]
Raise(e, arg, calls) == [exc |-> e, val |-> arg, calls |-> calls]

NotCalled == [exc |-> "not called", val |-> <<>>, calls |-> <<>>]

\* None
PyNone == JNull

\* The first failure of a chain of calls, passed on unchanged.
Failed(r) == r.exc # "none"

-----------------------------------------------------------------------------
(* json.loads, on the characters the pages of this model are written in:    *)
(* letters, digits, space and tab/newline/return, and the punctuation       *)
(* " : , { } [ ] _ $ < / > = .  There is no backslash, sign or decimal      *)
(* point in that alphabet, so escapes, negative numbers, -Infinity and      *)
(* fractions do not arise.                                                  *)

Whitespace == {" ", "\t", "\n", "\r"}
Digits == {"0", "1", "2", "3", "4", "5", "6", "7", "8", "9"}

DigitVal(c) ==
    CASE c = "0" -> 0 [] c = "1" -> 1 [] c = "2" -> 2 [] c = "3" -> 3
      [] c = "4" -> 4 [] c = "5" -> 5 [] c = "6" -> 6 [] c = "7" -> 7
      [] c = "8" -> 8 [] c = "9" -> 9

\* s[i:i+1] of Python with a 1-based i: "" past the end.
At(s, i) == IF i >= 1 /\ i <= Len(s) THEN s[i] ELSE ""

\* s[i-1:i-1+len(lit)] == lit
MatchAt(s, i, lit) ==
    /\ i + Len(lit) - 1 <= Len(s)
    /\ SubSeq(s, i, i + Len(lit) - 1) = lit

RECURSIVE SkipWs(_, _)
SkipWs(s, i) == IF At(s, i) \in Whitespace THEN SkipWs(s, i + 1) ELSE i

\* The index of the quote closing a string whose first character is at i, or 0
\* when the string is unterminated or holds a control character.
RECURSIVE StringEnd(_, _)
StringEnd(s, i) ==
    IF i > Len(s) THEN 0
    ELSE IF s[i] = "\"" THEN i
    ELSE IF s[i] \in {"\t", "\n", "\r"} THEN 0
    ELSE StringEnd(s, i + 1)

RECURSIVE DigitsEnd(_, _)
DigitsEnd(s, i) == IF At(s, i) \in Digits THEN DigitsEnd(s, i + 1) ELSE i

RECURSIVE DigitsValue(_, _, _, _)
DigitsValue(s, i, j, acc) ==
    IF i >= j THEN acc ELSE DigitsValue(s, i + 1, j, acc * 10 + DigitVal(s[i]))

\* dict[key] = value: an existing key keeps its place and takes the new value.
DictSet(ps, k, v) ==
    IF \E n \in 1..Len(ps) : ps[n][1] = k
    THEN [n \in 1..Len(ps) |-> IF ps[n][1] = k THEN <<k, v>> ELSE ps[n]]
    ELSE Append(ps, <<k, v>>)

NoParse == [ok |-> FALSE, v |-> JNull, i |-> 0]
Parsed(v, i) == [ok |-> TRUE, v |-> v, i |-> i]

\* The value of the digits s[i..j-1], or a number from cap on once cap is
\* reached.
RECURSIVE DigitsValueUpTo(_, _, _, _, _)
DigitsValueUpTo(s, i, j, acc, cap) ==
    IF i >= j \/ acc >= cap THEN acc
    ELSE DigitsValueUpTo(s, i + 1, j, acc * 10 + DigitVal(s[i]), cap)

\* The least integer float() turns into inf: 2^1024 - 2^970, the midpoint
\* between the largest double and 2^1024, in decimal.
FloatOverflow ==
    <<"1","7","9","7","6","9","3","1","3","4","8","6","2","3","1","5","8","0","7","9","3",
       "7","2","8","9","7","1","4","0","5","3","0","3","4","1","5","0","7","9","9","3","4",
       "1","3","2","7","1","0","0","3","7","8","2","6","9","3","6","1","7","3","7","7","8",
       "9","8","0","4","4","4","9","6","8","2","9","2","7","6","4","7","5","0","9","4","6",
       "6","4","9","0","1","7","9","7","7","5","8","7","2","0","7","0","9","6","3","3","0",
       "2","8","6","4","1","6","6","9","2","8","8","7","9","1","0","9","4","6","5","5","5",
       "5","4","7","8","5","1","9","4","0","4","0","2","6","3","0","6","5","7","4","8","8",
       "6","7","1","5","0","5","8","2","0","6","8","1","9","0","8","9","0","2","0","0","0",
       "7","0","8","3","8","3","6","7","6","2","7","3","8","5","4","8","4","5","8","1","7",
       "7","1","1","5","3","1","7","6","4","4","7","5","7","3","0","2","7","0","0","6","9",
       "8","5","5","5","7","1","3","6","6","9","5","9","6","2","2","8","4","2","9","1","4",
       "8","1","9","8","6","0","8","3","4","9","3","6","4","7","5","2","9","2","7","1","9",
       "0","7","4","1","6","8","4","4","4","3","6","5","5","1","0","7","0","4","3","4","2",
       "7","1","1","5","5","9","6","9","9","5","0","8","0","9","3","0","4","2","8","8","0",
       "1","7","7","9","0","4","1","7","4","4","9","7","7","9","2">>

\* float(<m>e<e>) is inf: m is the mantissa's digits (not 0, no leading
\* zero), e the exponent.  The literal is m followed by e zeros.
Overflows(m, e) ==
    IF Len(m) + e # Len(FloatOverflow) THEN Len(m) + e > Len(FloatOverflow)
    ELSE LET d(k) == IF k <= Len(m) THEN DigitVal(m[k]) ELSE 0
             diff == {k \in 1..Len(FloatOverflow) : d(k) # DigitVal(FloatOverflow[k])}
         IN  \/ diff = {}
             \/ \E k \in diff : /\ \A j \in diff : k <= j
                                /\ d(k) > DigitVal(FloatOverflow[k])

\* float() of the literal with mantissa digits m (value n) and exponent e.
FloatOf(m, n, e) ==
    IF n = 0 THEN JFloat(0, 0)
    ELSE IF Overflows(m, e) THEN JNonFinite("inf")
    ELSE JFloat(n, e)

\* NUMBER_RE at i (s[i] is a digit): (0|[1-9]\d*) then an optional [eE]\d+.
\* The mantissa stands for a number below 2^31.
ScanNumber(s, i) ==
    LET ie == IF s[i] = "0" THEN i + 1 ELSE DigitsEnd(s, i)
        n == DigitsValue(s, i, ie, 0)
        ee == IF At(s, ie) \in {"e", "E"} /\ At(s, ie + 1) \in Digits
              THEN DigitsEnd(s, ie + 1) ELSE ie
    IN  IF ee = ie THEN Parsed(JNum(n), ie)
        ELSE Parsed(FloatOf(SubSeq(s, i, ie - 1), n,
                            DigitsValueUpTo(s, ie + 1, ee, 0, Len(FloatOverflow))), ee)

RECURSIVE ScanOnce(_, _)
RECURSIVE JSONObject(_, _, _)
RECURSIVE JSONArray(_, _, _)

\* json.scanner's scan_once at 1-based index i.
ScanOnce(s, i) ==
    LET c == At(s, i) IN
    IF c = "\"" THEN
        LET e == StringEnd(s, i + 1) IN
        IF e = 0 THEN NoParse ELSE Parsed(JStr(SubSeq(s, i + 1, e - 1)), e + 1)
    ELSE IF c = "{" THEN
        LET n == SkipWs(s, i + 1) IN
        IF At(s, n) = "}" THEN Parsed(JObj(<<>>), n + 1) ELSE JSONObject(s, n, <<>>)
    ELSE IF c = "[" THEN
        LET n == SkipWs(s, i + 1) IN
        IF At(s, n) = "]" THEN Parsed(JArr(<<>>), n + 1) ELSE JSONArray(s, n, <<>>)
    ELSE IF c = "n" /\ MatchAt(s, i, <<"n", "u", "l", "l">>) THEN Parsed(JNull, i + 4)
    ELSE IF c = "t" /\ MatchAt(s, i, <<"t", "r", "u", "e">>) THEN Parsed(JBool(TRUE), i + 4)
    ELSE IF c = "f" /\ MatchAt(s, i, <<"f", "a", "l", "s", "e">>)
        THEN Parsed(JBool(FALSE), i + 5)
    ELSE IF c \in Digits THEN ScanNumber(s, i)
    ELSE IF c = "N" /\ MatchAt(s, i, <<"N", "a", "N">>)
        THEN Parsed(JNonFinite("nan"), i + 3)
    ELSE IF c = "I" /\ MatchAt(s, i, <<"I", "n", "f", "i", "n", "i", "t", "y">>)
        THEN Parsed(JNonFinite("inf"), i + 8)
    ELSE NoParse

\* json.decoder.JSONObject from the first member on: i is where its key's
\* opening quote must be, acc the pairs read so far.
JSONObject(s, i, acc) ==
    IF At(s, i) # "\"" THEN NoParse
    ELSE
    LET ke == StringEnd(s, i + 1) IN
    IF ke = 0 THEN NoParse
    ELSE
    LET c == SkipWs(s, ke + 1) IN
    IF At(s, c) # ":" THEN NoParse
    ELSE
    LET r == ScanOnce(s, SkipWs(s, c + 1)) IN
    IF ~r.ok THEN NoParse
    ELSE
    LET acc2 == DictSet(acc, SubSeq(s, i + 1, ke - 1), r.v)
        n == SkipWs(s, r.i)
    IN  IF At(s, n) = "}" THEN Parsed(JObj(acc2), n + 1)
        ELSE IF At(s, n) = "," THEN JSONObject(s, SkipWs(s, n + 1), acc2)
        ELSE NoParse

\* json.decoder.JSONArray from the first element on.
JSONArray(s, i, acc) ==
    LET r == ScanOnce(s, i) IN
    IF ~r.ok THEN NoParse
    ELSE
    LET acc2 == Append(acc, r.v)
        n == SkipWs(s, r.i)
    IN  IF At(s, n) = "]" THEN Parsed(JArr(acc2), n + 1)
        ELSE IF At(s, n) = "," THEN JSONArray(s, SkipWs(s, n + 1), acc2)
        ELSE NoParse

\* json.loads(s): one value between optional whitespace, nothing after it;
\* ValueError otherwise.
WholeDocument(s, r) ==
    IF r.ok /\ SkipWs(s, r.i) = Len(s) + 1
    THEN Return(r.v, <<>>)
    ELSE Raise("ValueError", s, <<>>)

json_loads(s) == WholeDocument(s, ScanOnce(s, SkipWs(s, 1)))

-----------------------------------------------------------------------------
(* Service._parse_configuration_from_source *)

\* '__PRELOADED_STATE__ ='
start_marker == <<"_","_","P","R","E","L","O","A","D","E","D","_","S","T","A","T","E","_","_"," ","=">>

\* '}</script>'
end_marker == <<"}","<","/","s","c","r","i","p","t",">">>

\* str.find(sub, start) with Python's 0-based indices: the lowest k >= start
\* with text[k:k+len(sub)] == sub, or -1.
Find(txt, sub, start) ==
    LET hits == {k \in start..(Len(txt) - Len(sub)) :
                    SubSeq(txt, k + 1, k + Len(sub)) = sub}
    IN  IF hits = {} THEN -1
        ELSE CHOOSE k \in hits : \A j \in hits : k <= j

\* text[start:end] for 0 <= start, end <= len(text)
Slice(txt, start, end) == SubSeq(txt, start + 1, end)

\* Variant: the message names the end marker.
StartNotFoundMessageNamingEnd(txt) ==
    <<"C","o","u","l","d"," ","n","o","t"," ","f","i","n","d"," ","s","t","a","r","t","i",
       "n","g"," ","m","a","r","k","e","r"," ">> \o end_marker \o <<" ","i","n"," ","t","e","x","t",":"," ">> \o txt

\* f'Could not find starting marker {start_marker} in text: {text}'
StartNotFoundMessage(txt) ==
    <<"C","o","u","l","d"," ","n","o","t"," ","f","i","n","d"," ","s","t","a","r","t","i",
       "n","g"," ","m","a","r","k","e","r"," ">> \o start_marker \o <<" ","i","n"," ","t","e","x","t",":"," ">> \o txt

\* f'Could not find end marker {end_marker} in text: {text}'
EndNotFoundMessage(txt) ==
    <<"C","o","u","l","d"," ","n","o","t"," ","f","i","n","d"," ","e","n","d"," ","m","a",
       "r","k","e","r"," ">> \o end_marker \o <<" ","i","n"," ","t","e","x","t",":"," ">> \o txt

\* start = start + len(start_marker)
CursorPastMarker(start) == start + Len(start_marker)

\* Variant: the end marker is searched for from the start of the text.
FindEndAnywhere(txt, start) == Find(txt, end_marker, 0)

\* end = text.find(end_marker, start)
FindEnd(txt, start) == Find(txt, end_marker, start)

\* Variant: the brace the end marker took is not put back.
RepairNothing(slice) == slice

\* data = f'{text[start: end]}}}'
Repair(slice) == slice \o <<"}">>

\* Variant: InvalidData carries the slice as found, without the brace.
InvalidDataArgUnrepaired(txt, start, end, data) == Slice(txt, start, end)

\* raise InvalidData(data)
InvalidDataArg(txt, start, end, data) == data

\* try: data = json.loads(data) / except ValueError: raise InvalidData(data)
Decoded(decoded, arg) ==
    IF decoded.exc = "ValueError"
    THEN Raise("InvalidData", arg, <<"find start", "find end", "json.loads">>)
    ELSE Return(decoded.val, <<"find start", "find end", "json.loads">>)

_parse_configuration_from_source(txt) ==
    LET found == Find(txt, start_marker, 0) IN
    IF found = -1
    THEN Raise("MarkerNotFound", StartNotFoundMessage(txt), <<"find start">>)
    ELSE
    LET start == CursorPastMarker(found)
        end == FindEnd(txt, start)
    IN
    IF end = -1
    THEN Raise("MarkerNotFound", EndNotFoundMessage(txt), <<"find start", "find end">>)
    ELSE
    LET data == Repair(Slice(txt, start, end)) IN
    Decoded(json_loads(data), InvalidDataArg(txt, start, end, data))

-----------------------------------------------------------------------------
(* Python operations the catalogue code applies to decoded values *)

HasKey(ps, k) == \E n \in 1..Len(ps) : ps[n][1] = k

Lookup(ps, k) == ps[CHOOSE n \in 1..Len(ps) : ps[n][1] = k][2]

\* v.get(key, default): only a dict has .get
dict_get(v, key, default) ==
    IF ~IsDict(v) THEN Raise("AttributeError", <<>>, <<>>)
    ELSE IF HasKey(v[2], key) THEN Return(Lookup(v[2], key), <<>>)
    ELSE Return(default, <<>>)

\* iter(v) run to the end: a list gives its items, a dict its keys, a str its
\* characters; None, numbers and booleans are not iterable.
Iterate(v) ==
    CASE Tag(v) = "arr" -> Return(v[2], <<>>)
      [] Tag(v) = "obj" -> Return([n \in 1..Len(v[2]) |-> JStr(v[2][n][1])], <<>>)
      [] Tag(v) = "str" -> Return([n \in 1..Len(v[2]) |-> JStr(<<v[2][n]>>)], <<>>)
      [] OTHER -> Raise("TypeError", <<>>, <<>>)

DigitChar(d) ==
    CASE d = 0 -> "0" [] d = 1 -> "1" [] d = 2 -> "2" [] d = 3 -> "3"
      [] d = 4 -> "4" [] d = 5 -> "5" [] d = 6 -> "6" [] d = 7 -> "7"
      [] d = 8 -> "8" [] d = 9 -> "9"

RECURSIVE IntToChars(_)
IntToChars(n) ==
    IF n < 10 THEN <<DigitChar(n)>>
    ELSE Append(IntToChars(n \div 10), DigitChar(n % 10))

RECURSIVE Pow10(_)
Pow10(e) == IF e = 0 THEN 1 ELSE 10 * Pow10(e - 1)

RECURSIVE PyRepr(_)
RECURSIVE PyReprItems(_, _)
RECURSIVE PyReprPairs(_, _)

\* repr(v).  Decoded strings hold no quote, backslash or control character;
\* finite floats are below 1e16, where Python prints them in full; a float
\* literal past the largest double is inf.
PyRepr(v) ==
    CASE Tag(v) = "null" -> <<"N","o","n","e">>
      [] Tag(v) = "bool" -> IF v[2] THEN <<"T","r","u","e">> ELSE <<"F","a","l","s","e">>
      [] Tag(v) = "num" -> IntToChars(v[2])
      [] IsNonFinite(v) -> IF v[2] = "nan" THEN <<"n","a","n">> ELSE <<"i","n","f">>
      [] Tag(v) = "float" /\ Len(v) = 3 -> IntToChars(v[2] * Pow10(v[3])) \o <<".","0">>
      [] Tag(v) = "str" -> <<"'">> \o v[2] \o <<"'">>
      [] Tag(v) = "arr" -> <<"[">> \o PyReprItems(v[2], 1) \o <<"]">>
      [] Tag(v) = "obj" -> <<"{">> \o PyReprPairs(v[2], 1) \o <<"}">>

PyReprItems(xs, n) ==
    IF n > Len(xs) THEN <<>>
    ELSE (IF n > 1 THEN <<","," ">> ELSE <<>>) \o PyRepr(xs[n]) \o PyReprItems(xs, n + 1)

PyReprPairs(ps, n) ==
    IF n > Len(ps) THEN <<>>
    ELSE (IF n > 1 THEN <<","," ">> ELSE <<>>)
         \o <<"'">> \o ps[n][1] \o <<"'">> \o <<":"," ">> \o PyRepr(ps[n][2])
         \o PyReprPairs(ps, n + 1)

\* What an f-string puts for {v}: str(v).
PyStr(v) == IF Tag(v) = "str" THEN v[2] ELSE PyRepr(v)

\* The number a bool, int or finite float stands for.
NumVal(v) ==
    CASE Tag(v) = "bool" -> IF v[2] THEN 1 ELSE 0
      [] Tag(v) = "num" -> v[2]
      [] Tag(v) = "float" -> v[2] * Pow10(v[3])

\* a == b for the values a channel id takes in this model: None, strings and
\* numbers (True == 1 == 1.0 in Python; nan equals nothing, inf only inf).
PyEq(a, b) ==
    IF IsNonFinite(a) \/ IsNonFinite(b)
    THEN IsNonFinite(a) /\ IsNonFinite(b) /\ a[2] = "inf" /\ b[2] = "inf"
    ELSE IF Tag(a) \in {"bool", "num", "float"} /\ Tag(b) \in {"bool", "num", "float"}
    THEN NumVal(a) = NumVal(b)
    ELSE a = b

\* Response.json(): the body decoded, or requests' JSONDecodeError.
AsJSONDecodeError(r) ==
    IF Failed(r) THEN Raise("JSONDecodeError", <<>>, <<>>) ELSE r

response_json(body) == AsJSONDecodeError(json_loads(body))

\* What the caller's log shows of a GET and of a yielded channel.
GetEvent(url, body) == <<"GET", url, body>>
YieldEvent(channel) == <<"yield", channel>>

-----------------------------------------------------------------------------
(* Service.__init__ *)

\* 'https://www.accuradio.com'
base_url == <<"h","t","t","p","s",":","/","/","w","w","w",".","a","c","c","u","r","a","d","i","o",
       ".","c","o","m">>

NewService == [url |-> base_url]

-----------------------------------------------------------------------------
(* Channel *)

\* Channel.__init__(service, data)
Channel(svc, data) == <<"Channel", svc, data>>

ChannelService(channel) == channel[2]
ChannelData(channel) == channel[3]

\* Channel.id: self._data.get('_id', {}).get('$oid')
GetOid(a) == IF Failed(a) THEN a ELSE dict_get(a.val, <<"$","o","i","d">>, PyNone)

id(channel) == GetOid(dict_get(ChannelData(channel), <<"_","i","d">>, JObj(<<>>)))

\* Channel.name
name(channel) == dict_get(ChannelData(channel), <<"n","a","m","e">>, PyNone)

\* Channel.description
description(channel) == dict_get(ChannelData(channel), <<"d","e","s","c","r","i","p","t","i","o","n">>, PyNone)

\* Channel.logo
logo(channel) == Return(PyNone, <<>>)

\* f'{self.service.url}/sweeper/json/fetch/?ucoid={self.id}'
MediaUrl(channel, ident) ==
    ChannelService(channel).url \o <<"/","s","w","e","e","p","e","r","/","j","s","o","n","/","f","e","t","c","h","/","?",
       "u","c","o","i","d","=">> \o PyStr(ident)

\* Channel.media_uri, the server answering its GET with body:
\* requests.get(url).json().get('creative', {}).get('audio')
RaiseAfter(r, calls) == [exc |-> r.exc, val |-> r.val, calls |-> calls]

GetAudio(c, calls) ==
    IF Failed(c) THEN RaiseAfter(c, calls)
    ELSE RaiseAfter(dict_get(c.val, <<"a","u","d","i","o">>, PyNone), calls)

GetCreative(j, calls) ==
    IF Failed(j) THEN RaiseAfter(j, calls)
    ELSE GetAudio(dict_get(j.val, <<"c","r","e","a","t","i","v","e">>, JObj(<<>>)), calls)

FetchMedia(channel, body, i) ==
    IF Failed(i) THEN i
    ELSE GetCreative(response_json(body), <<GetEvent(MediaUrl(channel, i.val), body)>>)

media_uri(channel, body) == FetchMedia(channel, body, id(channel))

-----------------------------------------------------------------------------
(* Brand *)

BrandFields == {<<"c","h","a","n","n","e","l","s">>, <<"_","i","d">>, <<"c","a","n","o","n","i","c","a","l","_","u","r","l">>, <<"p","a","r","a","m">>, <<"n","a","m","e">>}

\* Brand(**brand): brand must be a mapping whose keys are exactly the five
\* fields of the dataclass; the values are taken as they are.
Brand(v) ==
    IF ~IsDict(v) THEN Raise("TypeError", <<>>, <<>>)
    ELSE IF {v[2][n][1] : n \in 1..Len(v[2])} # BrandFields
    THEN Raise("TypeError", <<>>, <<>>)
    ELSE Return([channels |-> Lookup(v[2], <<"c","h","a","n","n","e","l","s">>),
                 _id |-> Lookup(v[2], <<"_","i","d">>),
                 canonical_url |-> Lookup(v[2], <<"c","a","n","o","n","i","c","a","l","_","u","r","l">>),
                 param |-> Lookup(v[2], <<"p","a","r","a","m">>),
                 name |-> Lookup(v[2], <<"n","a","m","e">>)], <<>>)

\* Brand.oid
oid(brand) == dict_get(brand._id, <<"$","o","i","d">>, PyNone)

-----------------------------------------------------------------------------
(* Service: _data, _brands, channels, get_channel_by_id.                    *)
(* A property or method that runs several statements is written as a chain  *)
(* of operators, one per statement, each handing its result to the next.    *)

\* f'{self.url}/c/m/json/genre/?param={brand.param}'
ListingUrl(svc, brand) == svc.url \o <<"/","c","/","m","/","j","s","o","n","/","g","e","n","r","e","/","?","p","a","r","a",
       "m","=">> \o PyStr(brand.param)

\* What an unknown path is answered with: a page that is not JSON.
NotFoundBody == <<"<","p",">">>

\* requests.get(url).  The server answers the root page, the listings of the
\* brand parameters p and q, and nothing else.
requests_get(server, url) ==
    IF url = base_url THEN server.root
    ELSE IF url = base_url \o <<"/","c","/","m","/","j","s","o","n","/","g","e","n","r","e","/","?","p","a","r","a",
       "m","=","p">> THEN server.p
    ELSE IF url = base_url \o <<"/","c","/","m","/","j","s","o","n","/","g","e","n","r","e","/","?","p","a","r","a",
       "m","=","q">> THEN server.q
    ELSE NotFoundBody

\* Variant: the page is answered from a copy kept on the Service, with no GET.
_data_cached(svc, server) ==
    [events |-> <<>>,
     out |-> _parse_configuration_from_source(requests_get(server, svc.url))]

\* Service._data: one GET of self.url, then the extractor on the page.
\* events are the GETs issued, out the extractor's outcome.
_data(svc, server) ==
    [events |-> <<GetEvent(svc.url, requests_get(server, svc.url))>>,
     out |-> _parse_configuration_from_source(requests_get(server, svc.url))]

\* r with calls in place of the calls it lists.
WithCalls(r, calls) == [exc |-> r.exc, val |-> r.val, calls |-> calls]

\* Service._brands up to its first Brand: the root page fetched and decoded,
\* self._data.get('content').get('genres', {}).get('brands') read and iter()
\* applied to it.  val is the sequence of raw brand entries to go through,
\* calls the GETs issued.
IterBrands(b, events) ==
    IF Failed(b) THEN WithCalls(b, events) ELSE WithCalls(Iterate(b.val), events)

GetBrands(g, events) ==
    IF Failed(g) THEN WithCalls(g, events)
    ELSE IterBrands(dict_get(g.val, <<"b","r","a","n","d","s">>, PyNone), events)

GetGenres(c, events) ==
    IF Failed(c) THEN WithCalls(c, events)
    ELSE GetBrands(dict_get(c.val, <<"g","e","n","r","e","s">>, JObj(<<>>)), events)

GetContent(d) ==
    IF Failed(d.out) THEN WithCalls(d.out, d.events)
    ELSE GetGenres(dict_get(d.out.val, <<"c","o","n","t","e","n","t">>, PyNone), d.events)

BrandEntries(svc, server) == GetContent(_data(svc, server))

\* The outcome of one next(): exc is "none" when val was yielded,
\* "StopIteration" at the end, the exception's class otherwise.
Step(g, exc, val, events) == [gen |-> g, exc |-> exc, val |-> val, events |-> events]

\* The generator Service._brands returns.  st is "created" before its first
\* next(), "suspended" at a yield, "finished" once it returned or raised;
\* entries are the raw brand entries of the page, bi how many were taken.
BrandGenerator(st, entries, bi) == [st |-> st, entries |-> entries, bi |-> bi]

BrandsFinished == BrandGenerator("finished", <<>>, 0)

\* Service._brands (the property read): the generator, not yet run, and the
\* GETs the read issued.
_brands(svc, server) == [gen |-> BrandGenerator("created", <<>>, 0), events |-> <<>>]

\* yield Brand(**brand)
YieldBrand(entries, bi, events, b) ==
    IF Failed(b) THEN Step(BrandsFinished, b.exc, b.val, events)
    ELSE Step(BrandGenerator("suspended", entries, bi + 1), "none", b.val, events)

\* for brand in ...: the entry after the first bi, or the end.
TakeBrand(entries, bi, events) ==
    IF bi >= Len(entries) THEN Step(BrandsFinished, "StopIteration", <<>>, events)
    ELSE YieldBrand(entries, bi, events, Brand(entries[bi + 1]))

StartedBrands(e) ==
    IF Failed(e) THEN Step(BrandsFinished, e.exc, e.val, e.calls)
    ELSE TakeBrand(e.val, 0, e.calls)

\* next() of the generator Service._brands returns
brands_next(svc, server, b) ==
    IF b.st = "created" THEN StartedBrands(BrandEntries(svc, server))
    ELSE IF b.st = "suspended" THEN TakeBrand(b.entries, b.bi, <<>>)
    ELSE Step(BrandsFinished, "StopIteration", <<>>, <<>>)

\* The generator Service.channels returns.  st is "created" before its first
\* next(), "suspended" at a yield, "finished" once it returned or raised;
\* entries are the raw brand entries of the page, bi how many of them were
\* taken, chans the entries of the current brand's listing, ci how many of
\* them were yielded.
Generator(st, entries, bi, chans, ci) ==
    [st |-> st, entries |-> entries, bi |-> bi, chans |-> chans, ci |-> ci]

Finished == Generator("finished", <<>>, 0, <<>>, 0)

\* A failure r inside the generator: it ends, the exception reaches the caller.
Throw(r, events) == Step(Finished, r.exc, r.val, events)

\* Variant: reading the property fetches the root page at once.
channels_eager(svc, server) ==
    [gen |-> Generator("created", <<>>, 0, <<>>, 0), events |-> _data(svc, server).events]

\* Service.channels (the property read): the generator, not yet run, and the
\* GETs the read issued.
channels(svc, server) ==
    [gen |-> Generator("created", <<>>, 0, <<>>, 0), events |-> <<>>]

\* The body of `for brand in self._brands` from the brand after the first bi:
\* build the Brand, GET its listing, iterate response.json().get('channels')
\* and yield the first Channel; a listing with no channel leads on to the
\* next brand.  f is [svc, server, entries, bi, events].
RECURSIVE NextBrand(_)

\* yield Channel(self, channel), for the first channel of the listing
FirstChannel(f, it) ==
    IF Failed(it) THEN Throw(it, f.events)
    ELSE IF it.val = <<>> THEN NextBrand([f EXCEPT !.bi = f.bi + 1])
    ELSE Step(Generator("suspended", f.entries, f.bi + 1, it.val, 1), "none",
              Channel(f.svc, it.val[1]),
              Append(f.events, YieldEvent(Channel(f.svc, it.val[1]))))

\* for channel in response.json().get('channels')
ListedChannels(f, c) ==
    IF Failed(c) THEN Throw(c, f.events) ELSE FirstChannel(f, Iterate(c.val))

DecodedListing(f, j) ==
    IF Failed(j) THEN Throw(j, f.events)
    ELSE ListedChannels(f, dict_get(j.val, <<"c","h","a","n","n","e","l","s">>, PyNone))

\* response = requests.get(url)
FetchListing(f, url) ==
    DecodedListing([f EXCEPT !.events =
                       Append(f.events, GetEvent(url, requests_get(f.server, url)))],
                   response_json(requests_get(f.server, url)))

BuiltBrand(f, b) ==
    IF Failed(b) THEN Throw(b, f.events) ELSE FetchListing(f, ListingUrl(f.svc, b.val))

NextBrand(f) ==
    IF f.bi >= Len(f.entries) THEN Step(Finished, "StopIteration", <<>>, f.events)
    ELSE BuiltBrand(f, Brand(f.entries[f.bi + 1]))

Frame(svc, server, entries, bi, events) ==
    [svc |-> svc, server |-> server, entries |-> entries, bi |-> bi, events |-> events]

\* The first next(): Service._brands starts, then the first brand is taken.
StartBrands(svc, server, e) ==
    IF Failed(e) THEN Throw(e, e.calls)
    ELSE NextBrand(Frame(svc, server, e.val, 0, e.calls))

\* next(generator)
generator_next(svc, server, g) ==
    IF g.st = "created" THEN StartBrands(svc, server, BrandEntries(svc, server))
    ELSE IF g.st = "suspended" THEN
        IF g.ci < Len(g.chans)
        THEN Step([g EXCEPT !.ci = g.ci + 1], "none",
                  Channel(svc, g.chans[g.ci + 1]),
                  <<YieldEvent(Channel(svc, g.chans[g.ci + 1]))>>)
        ELSE NextBrand(Frame(svc, server, g.entries, g.bi, <<>>))
    ELSE Step(Finished, "StopIteration", <<>>, <<>>)

\* next((channel for channel in self.channels if channel.id == channel_id), None)
\* from generator g on, events being what was logged so far.
RECURSIVE ScanChannels(_, _, _, _, _)

\* if channel.id == channel_id
MatchChannel(svc, server, channel_id, s, events, i) ==
    IF Failed(i) THEN WithCalls(i, events)
    ELSE IF PyEq(i.val, channel_id) THEN Return(s.val, events)
    ELSE ScanChannels(svc, server, channel_id, s.gen, events)

ScanStep(svc, server, channel_id, s, events) ==
    IF s.exc = "StopIteration" THEN Return(PyNone, events)
    ELSE IF s.exc # "none" THEN Raise(s.exc, s.val, events)
    ELSE MatchChannel(svc, server, channel_id, s, events, id(s.val))

ScannedStep(svc, server, channel_id, s, events) ==
    ScanStep(svc, server, channel_id, s, events \o s.events)

ScanChannels(svc, server, channel_id, g, events) ==
    ScannedStep(svc, server, channel_id, generator_next(svc, server, g), events)

\* Service.get_channel_by_id(channel_id)
ScanFrom(svc, server, channel_id, c) ==
    ScanChannels(svc, server, channel_id, c.gen, c.events)

get_channel_by_id(svc, server, channel_id) ==
    ScanFrom(svc, server, channel_id, channels(svc, server))

-----------------------------------------------------------------------------
(* SpecParse: the extractor applied to page texts assembled from fragments *)

MaxPieces == 4

Fragments ==
    { start_marker,
      end_marker,
      <<" ","{","\"","a","\"",":","1">>,
      <<",","\"","b","\"",":","[","n","u","l","l",",","\"","x","\"","]">>,
      <<"}">>,
      <<"{","\"","c","\"",":">>,
      <<"[","N","a","N",",","1","e","4","0","0","]">>,
      <<"<","/","s","c","r","i","p","t",">">>,
      <<"_","_","P","R","E","L","O","A","D","E","D","_","S","T","A","T","E","_","_">> }

Idle == <<>>

InitParse ==
    /\ text = <<>>
    /\ pieces = 0
    /\ res = NotCalled
    /\ service = Idle /\ net = Idle /\ gen = Idle /\ trace = <<>>
    /\ bgen = Idle /\ btrace = <<>>
    /\ ret = NotCalled /\ started = 0 /\ rootGets = 0
    /\ held = Idle /\ reads = 0 /\ sweepGets = 0

\* The caller obtains a longer page.
AppendFragment ==
    /\ pieces < MaxPieces
    /\ \E f \in Fragments : text' = text \o f
    /\ pieces' = pieces + 1
    /\ res' = NotCalled
    /\ UNCHANGED <<service, ret, serviceVars, channelVars>>

\* Service._parse_configuration_from_source(text)
Parse ==
    /\ res = NotCalled
    /\ res' = _parse_configuration_from_source(text)
    /\ UNCHANGED <<text, pieces, service, ret, serviceVars, channelVars>>

NextParse == AppendFragment \/ Parse

SpecParse == InitParse /\ [][NextParse]_vars

-----------------------------------------------------------------------------
(* SpecChannel: a caller holding one Channel and reading its properties *)

MaxReads == 2

\* Raw channel entries, as a brand listing's "channels" array carries them.
EntryTexts ==
    { <<"{","\"","_","i","d","\"",":","{","\"","$","o","i","d","\"",":","\"","1","\"","}",
       ",","\"","n","a","m","e","\"",":","\"","A","\"",",","\"","d","e","s","c","r","i",
       "p","t","i","o","n","\"",":","\"","d","\"","}">>,
      <<"{","\"","_","i","d","\"",":","{","\"","$","o","i","d","\"",":","\"","2","\"","}",
       ",","\"","n","a","m","e","\"",":","\"","B","\"","}">>,
      <<"{","\"","n","a","m","e","\"",":","\"","C","\"",",","\"","d","e","s","c","r","i",
       "p","t","i","o","n","\"",":","\"","e","\"","}">>,
      <<"{","\"","_","i","d","\"",":","{","}",",","\"","d","e","s","c","r","i","p","t","i",
       "o","n","\"",":","\"","f","\"","}">>,
      <<"{","}">>,
      <<"{","\"","_","i","d","\"",":","\"","1","\"",",","\"","n","a","m","e","\"",":","\"",
       "D","\"","}">>,
      <<"{","\"","_","i","d","\"",":","n","u","l","l",",","\"","n","a","m","e","\"",":",
       "\"","E","\"","}">>,
      <<"{","\"","_","i","d","\"",":","{","\"","$","o","i","d","\"",":","7","}","}">>,
      <<"{","\"","_","i","d","\"",":","{","\"","$","o","i","d","\"",":","N","a","N","}",",",
       "\"","n","a","m","e","\"",":","I","n","f","i","n","i","t","y",",","\"","d","e","s",
       "c","r","i","p","t","i","o","n","\"",":","1","e","4","0","0","}">> }

RawEntries == {json_loads(t).val : t \in EntryTexts}

\* Bodies the sweeper endpoint answers with.
SweepBodies ==
    { <<"{","\"","c","r","e","a","t","i","v","e","\"",":","{","\"","a","u","d","i","o","\"",
       ":","\"","u","1","\"","}","}">>,
      <<"{","\"","c","r","e","a","t","i","v","e","\"",":","{","\"","a","u","d","i","o","\"",
       ":","\"","u","2","\"","}","}">>,
      <<"{","\"","c","r","e","a","t","i","v","e","\"",":","{","}","}">>,
      <<"{","}">>,
      <<"{","\"","c","r","e","a","t","i","v","e","\"",":","n","u","l","l","}">>,
      <<"{","\"","c","r","e","a","t","i","v","e","\"",":","{","\"","a","u","d","i","o","\"",
       ":","1","e","4","0","0","}","}">>,
      <<"{","\"","c","r","e","a","t","i","v","e","\"",":","{","\"","a","u","d","i","o","\"",
       ":","N","a","N","}","}">>,
      <<"<","p",">">> }

\* The caller's record of a finished call.
Outcome(op, arg, r) ==
    [op |-> op, arg |-> arg, exc |-> r.exc, val |-> r.val, calls |-> r.calls]

NoCall == Outcome("none", <<>>, NotCalled)

\* How many GETs the events hold whose URL is in urls.
CountGets(events, urls) ==
    Cardinality({n \in 1..Len(events) : events[n][1] = "GET" /\ events[n][2] \in urls})

\* The sweeper URLs of the held channel, whatever its id.
SweeperUrls(events) ==
    {events[n][2] : n \in {m \in 1..Len(events) :
        MatchAt(events[m][2], 1, base_url \o <<"/","s","w","e","e","p","e","r","/","j","s","o","n","/","f","e","t","c","h","/","?",
       "u","c","o","i","d","=">>)}}

InitChannel ==
    /\ service = NewService
    /\ held = Channel(service, json_loads(<<"{","}">>).val)
    /\ ret = NoCall
    /\ reads = 0
    /\ sweepGets = 0
    /\ text = <<>> /\ pieces = 0 /\ res = NotCalled
    /\ net = Idle /\ gen = Idle /\ trace = <<>> /\ started = 0 /\ rootGets = 0
    /\ bgen = Idle /\ btrace = <<>>

\* Channel(service, data)
NewChannel ==
    /\ \E data \in RawEntries : held' = Channel(service, data)
    /\ ret' = NoCall
    /\ UNCHANGED <<service, reads, sweepGets, parseVars, serviceVars>>

\* channel.id
ReadId ==
    /\ ret' = Outcome("id", <<>>, id(held))
    /\ UNCHANGED <<service, held, reads, sweepGets, parseVars, serviceVars>>

\* channel.name
ReadName ==
    /\ ret' = Outcome("name", <<>>, name(held))
    /\ UNCHANGED <<service, held, reads, sweepGets, parseVars, serviceVars>>

\* channel.description
ReadDescription ==
    /\ ret' = Outcome("description", <<>>, description(held))
    /\ UNCHANGED <<service, held, reads, sweepGets, parseVars, serviceVars>>

\* channel.logo
ReadLogo ==
    /\ ret' = Outcome("logo", <<>>, logo(held))
    /\ UNCHANGED <<service, held, reads, sweepGets, parseVars, serviceVars>>

\* channel.media_uri
ReadMediaUri ==
    /\ reads < MaxReads
    /\ \E body \in SweepBodies :
         \E r \in {media_uri(held, body)} :
         /\ ret' = Outcome("media_uri", <<>>, r)
         /\ sweepGets' = sweepGets + CountGets(r.calls, SweeperUrls(r.calls))
    /\ reads' = reads + 1
    /\ UNCHANGED <<service, held, parseVars, serviceVars>>

NextChannel ==
    \/ NewChannel
    \/ ReadId
    \/ ReadName
    \/ ReadDescription
    \/ ReadLogo
    \/ ReadMediaUri

SpecChannel == InitChannel /\ [][NextChannel]_vars

-----------------------------------------------------------------------------
(* Spec: a caller of one Service, against an upstream server *)

MaxCalls == 2

\* Root pages the server may serve.
Pages ==
    { <<"<","s","c","r","i","p","t",">","w","i","n","d","o","w",".","_","_","P","R","E","L",
       "O","A","D","E","D","_","S","T","A","T","E","_","_"," ","="," ","{","\"","c","o",
       "n","t","e","n","t","\"",":","{","\"","g","e","n","r","e","s","\"",":","{","\"","b",
       "r","a","n","d","s","\"",":","[","{","\"","c","h","a","n","n","e","l","s","\"",":",
       "2",",","\"","_","i","d","\"",":","{","\"","$","o","i","d","\"",":","\"","a","\"",
       "}",",","\"","c","a","n","o","n","i","c","a","l","_","u","r","l","\"",":","\"","u",
       "\"",",","\"","p","a","r","a","m","\"",":","\"","p","\"",",","\"","n","a","m","e",
       "\"",":","\"","n","\"","}",",","{","\"","c","h","a","n","n","e","l","s","\"",":",
       "1",",","\"","_","i","d","\"",":","{","\"","$","o","i","d","\"",":","\"","b","\"",
       "}",",","\"","c","a","n","o","n","i","c","a","l","_","u","r","l","\"",":","\"","v",
       "\"",",","\"","p","a","r","a","m","\"",":","\"","q","\"",",","\"","n","a","m","e",
       "\"",":","\"","m","\"","}","]","}","}","}","<","/","s","c","r","i","p","t",">">>,
      <<"<","s","c","r","i","p","t",">","w","i","n","d","o","w",".","_","_","P","R","E","L",
       "O","A","D","E","D","_","S","T","A","T","E","_","_"," ","="," ","{","\"","c","o",
       "n","t","e","n","t","\"",":","{","\"","g","e","n","r","e","s","\"",":","{","\"","b",
       "r","a","n","d","s","\"",":","[","{","\"","c","h","a","n","n","e","l","s","\"",":",
       "1",",","\"","_","i","d","\"",":","{","\"","$","o","i","d","\"",":","\"","b","\"",
       "}",",","\"","c","a","n","o","n","i","c","a","l","_","u","r","l","\"",":","\"","v",
       "\"",",","\"","p","a","r","a","m","\"",":","\"","q","\"",",","\"","n","a","m","e",
       "\"",":","\"","m","\"","}",",","{","\"","c","h","a","n","n","e","l","s","\"",":",
       "2",",","\"","_","i","d","\"",":","{","\"","$","o","i","d","\"",":","\"","a","\"",
       "}",",","\"","c","a","n","o","n","i","c","a","l","_","u","r","l","\"",":","\"","u",
       "\"",",","\"","p","a","r","a","m","\"",":","\"","p","\"",",","\"","n","a","m","e",
       "\"",":","\"","n","\"","}","]","}","}","}","<","/","s","c","r","i","p","t",">">>,
      <<"<","s","c","r","i","p","t",">","w","i","n","d","o","w",".","_","_","P","R","E","L",
       "O","A","D","E","D","_","S","T","A","T","E","_","_"," ","="," ","{","\"","c","o",
       "n","t","e","n","t","\"",":","{","\"","g","e","n","r","e","s","\"",":","{","\"","b",
       "r","a","n","d","s","\"",":","[","{","\"","c","h","a","n","n","e","l","s","\"",":",
       "2",",","\"","_","i","d","\"",":","{","\"","$","o","i","d","\"",":","\"","a","\"",
       "}",",","\"","c","a","n","o","n","i","c","a","l","_","u","r","l","\"",":","\"","u",
       "\"",",","\"","p","a","r","a","m","\"",":","\"","p","\"",",","\"","n","a","m","e",
       "\"",":","\"","n","\"","}",",","{","\"","p","a","r","a","m","\"",":","\"","q","\"",
       ",","\"","n","a","m","e","\"",":","\"","m","\"","}","]","}","}","}","<","/","s","c",
       "r","i","p","t",">">>,
      <<"<","s","c","r","i","p","t",">","w","i","n","d","o","w",".","_","_","P","R","E","L",
       "O","A","D","E","D","_","S","T","A","T","E","_","_"," ","="," ","{","\"","c","o",
       "n","t","e","n","t","\"",":","{","\"","g","e","n","r","e","s","\"",":","{","\"","b",
       "r","a","n","d","s","\"",":","[","]","}","}","}","<","/","s","c","r","i","p","t",">">>,
      <<"<","s","c","r","i","p","t",">","w","i","n","d","o","w",".","_","_","P","R","E","L",
       "O","A","D","E","D","_","S","T","A","T","E","_","_"," ","="," ","{","\"","c","o",
       "n","t","e","n","t","\"",":","{","\"","g","e","n","r","e","s","\"",":","{","}","}",
       "}","<","/","s","c","r","i","p","t",">">>,
      <<"<","s","c","r","i","p","t",">","w","i","n","d","o","w",".","_","_","P","R","E","L",
       "O","A","D","E","D","_","S","T","A","T","E","_","_"," ","="," ","{","\"","c","o",
       "n","t","e","n","t","\"",":","{","}","}","<","/","s","c","r","i","p","t",">">>,
      <<"<","s","c","r","i","p","t",">","w","i","n","d","o","w",".","_","_","P","R","E","L",
       "O","A","D","E","D","_","S","T","A","T","E","_","_"," ","="," ","{","\"","u","s",
       "e","r","\"",":","n","u","l","l","}","<","/","s","c","r","i","p","t",">">>,
      <<"<","s","c","r","i","p","t",">","w","i","n","d","o","w",".","_","_","P","R","E","L",
       "O","A","D","E","D","_","S","T","A","T","E","_","_"," ","="," ","{","\"","c","o",
       "n","t","e","n","t","\"",":","}","<","/","s","c","r","i","p","t",">">>,
      <<"<","h","t","m","l",">","<","/","h","t","m","l",">">> }

\* Bodies the server may answer a brand's listing with.
ListingBodies ==
    { <<"{","\"","c","h","a","n","n","e","l","s","\"",":","[","{","\"","_","i","d","\"",":",
       "{","\"","$","o","i","d","\"",":","\"","1","\"","}",",","\"","n","a","m","e","\"",
       ":","\"","A","\"",",","\"","d","e","s","c","r","i","p","t","i","o","n","\"",":",
       "\"","d","\"","}",",","{","\"","_","i","d","\"",":","{","\"","$","o","i","d","\"",
       ":","\"","2","\"","}",",","\"","n","a","m","e","\"",":","\"","B","\"","}","]","}">>,
      <<"{","\"","c","h","a","n","n","e","l","s","\"",":","[","{","\"","_","i","d","\"",":",
       "\"","1","\"",",","\"","n","a","m","e","\"",":","\"","D","\"","}",",","{","\"","_",
       "i","d","\"",":","{","\"","$","o","i","d","\"",":","\"","1","\"","}",",","\"","n",
       "a","m","e","\"",":","\"","Z","\"","}","]","}">>,
      <<"{","\"","c","h","a","n","n","e","l","s","\"",":","[","{","\"","n","a","m","e","\"",
       ":","\"","C","\"","}",",","{","\"","_","i","d","\"",":","{","\"","$","o","i","d",
       "\"",":","N","a","N","}",",","\"","n","a","m","e","\"",":","I","n","f","i","n","i",
       "t","y",",","\"","d","e","s","c","r","i","p","t","i","o","n","\"",":","1","e","4",
       "0","0","}","]","}">>,
      <<"{","\"","c","h","a","n","n","e","l","s","\"",":","[","]","}">>,
      <<"{","}">>,
      <<"<","p",">">> }

\* Bodies the server may answer the listing of brand parameter q with.
QListingBodies ==
    { <<"{","\"","c","h","a","n","n","e","l","s","\"",":","[","{","\"","_","i","d","\"",":",
       "{","\"","$","o","i","d","\"",":","\"","1","\"","}",",","\"","n","a","m","e","\"",
       ":","\"","A","\"",",","\"","d","e","s","c","r","i","p","t","i","o","n","\"",":",
       "\"","d","\"","}",",","{","\"","_","i","d","\"",":","{","\"","$","o","i","d","\"",
       ":","\"","2","\"","}",",","\"","n","a","m","e","\"",":","\"","B","\"","}","]","}">>,
      <<"{","\"","c","h","a","n","n","e","l","s","\"",":","[","]","}">>,
      <<"<","p",">">> }

Servers == [root : Pages, p : ListingBodies, q : QListingBodies]

\* The ids the caller looks up.
ChannelIds == {JStr(<<"1">>), JStr(<<"2">>), JStr(<<"9">>), PyNone}

NoGenerator == Generator("none", <<>>, 0, <<>>, 0)
NoBrandGenerator == BrandGenerator("none", <<>>, 0)

Init ==
    /\ service = NewService
    /\ net \in Servers
    /\ gen = NoGenerator
    /\ trace = <<>>
    /\ bgen = NoBrandGenerator
    /\ btrace = <<>>
    /\ ret = NoCall
    /\ started = 0
    /\ rootGets = 0
    /\ text = <<>> /\ pieces = 0 /\ res = NotCalled
    /\ held = Idle /\ reads = 0 /\ sweepGets = 0

\* service.channels: the caller takes a new generator and lets go of the one
\* it had.
ReadChannels ==
    /\ started < MaxCalls
    /\ \E c \in {channels(service, net)} :
         /\ gen' = c.gen
         /\ trace' = c.events
         /\ rootGets' = rootGets + CountGets(c.events, {service.url})
    /\ ret' = NoCall
    /\ UNCHANGED <<service, net, bgen, btrace, started, parseVars, channelVars>>

\* next(generator)
PullChannel ==
    /\ gen.st # "none"
    /\ gen.st = "created" => started < MaxCalls
    /\ \E s \in {generator_next(service, net, gen)} :
         /\ gen' = s.gen
         /\ trace' = trace \o s.events
         /\ ret' = Outcome("next", <<>>, [exc |-> s.exc, val |-> s.val, calls |-> s.events])
         /\ rootGets' = rootGets + CountGets(s.events, {service.url})
    /\ started' = IF gen.st = "created" THEN started + 1 ELSE started
    /\ UNCHANGED <<service, net, bgen, btrace, parseVars, channelVars>>

\* service.get_channel_by_id(channel_id): the lookup runs a generator of its
\* own and leaves the one the caller holds as it is.
GetChannelById ==
    /\ started < MaxCalls
    /\ \E channel_id \in ChannelIds :
         \E r \in {get_channel_by_id(service, net, channel_id)} :
         /\ ret' = Outcome("get_channel_by_id", channel_id, r)
         /\ rootGets' = rootGets + CountGets(r.calls, {service.url})
    /\ started' = started + 1
    /\ UNCHANGED <<service, net, gen, trace, bgen, btrace, parseVars, channelVars>>

\* service._brands: the caller takes a new brand generator and lets go of
\* the one it had.
ReadBrands ==
    /\ started < MaxCalls
    /\ \E c \in {_brands(service, net)} :
         /\ bgen' = c.gen
         /\ btrace' = c.events
         /\ rootGets' = rootGets + CountGets(c.events, {service.url})
    /\ ret' = NoCall
    /\ UNCHANGED <<service, net, gen, trace, started, parseVars, channelVars>>

\* next(brand generator)
PullBrand ==
    /\ bgen.st # "none"
    /\ bgen.st = "created" => started < MaxCalls
    /\ \E s \in {brands_next(service, net, bgen)} :
         /\ bgen' = s.gen
         /\ btrace' = btrace \o s.events
         /\ ret' = Outcome("_brands next", <<>>,
                           [exc |-> s.exc, val |-> s.val, calls |-> s.events])
         /\ rootGets' = rootGets + CountGets(s.events, {service.url})
    /\ started' = IF bgen.st = "created" THEN started + 1 ELSE started
    /\ UNCHANGED <<service, net, gen, trace, parseVars, channelVars>>

Next ==
    \/ ReadChannels
    \/ PullChannel
    \/ GetChannelById
    \/ ReadBrands
    \/ PullBrand

Spec == Init /\ [][Next]_vars

-----------------------------------------------------------------------------
(* What the extractor's contract says, stated on the text itself *)

\* sub occurs in txt at 0-based offset k
OccursAt(txt, sub, k) ==
    /\ k >= 0
    /\ k + Len(sub) <= Len(txt)
    /\ \A n \in 1..Len(sub) : txt[k + n] = sub[n]

HasStartMarker(txt) == \E k \in 0..Len(txt) : OccursAt(txt, start_marker, k)

\* The offset just past the first start marker.
PastFirstStart(txt) ==
    LET k == CHOOSE k \in 0..Len(txt) :
                 /\ OccursAt(txt, start_marker, k)
                 /\ \A j \in 0..(k - 1) : ~OccursAt(txt, start_marker, j)
    IN  k + Len(start_marker)

HasEndMarkerAfter(txt) ==
    /\ HasStartMarker(txt)
    /\ \E k \in PastFirstStart(txt)..Len(txt) : OccursAt(txt, end_marker, k)

\* The text strictly between the first start marker and the first end marker
\* at or after it, with one closing brace appended.
RepairedContent(txt) ==
    LET from == PastFirstStart(txt)
        to == CHOOSE k \in from..Len(txt) :
                  /\ OccursAt(txt, end_marker, k)
                  /\ \A j \in from..(k - 1) : ~OccursAt(txt, end_marker, j)
    IN  [n \in 1..(to - from) |-> txt[from + n]] \o <<"}">>

Called == res # NotCalled

\* How a MarkerNotFound message names the marker it missed.
NamesStartMarker ==
    <<"C","o","u","l","d"," ","n","o","t"," ","f","i","n","d"," ","s","t","a","r","t","i",
       "n","g"," ","m","a","r","k","e","r"," ","_","_","P","R","E","L","O","A","D","E","D",
       "_","S","T","A","T","E","_","_"," ","=">>

NamesEndMarker ==
    <<"C","o","u","l","d"," ","n","o","t"," ","f","i","n","d"," ","e","n","d"," ","m","a",
       "r","k","e","r"," ","}","<","/","s","c","r","i","p","t",">">>

\* C2: when both markers are there and the content between them plus one "}"
\* is valid JSON, the extractor returns exactly the decoding of that content
\* plus "}".
C2_ReturnsDecodedContent ==
    (/\ Called
     /\ HasEndMarkerAfter(text)
     /\ json_loads(RepairedContent(text)).exc = "none")
    => /\ res.exc = "none"
       /\ res.val = json_loads(RepairedContent(text)).val

\* A page with text before the marker was decoded to a non-empty mapping.
C2_Witness ==
    /\ Called
    /\ res.exc = "none"
    /\ ~OccursAt(text, start_marker, 0)
    /\ IsDict(res.val)
    /\ Len(res.val[2]) >= 1

\* C3: a text without the start marker fails with MarkerNotFound naming the
\* start marker, after the start-marker search alone: no end-marker search,
\* no JSON decoding.
C3_NoStartMarker ==
    (Called /\ ~HasStartMarker(text))
    => /\ res.exc = "MarkerNotFound"
       /\ OccursAt(res.val, NamesStartMarker, 0)
       /\ res.calls = <<"find start">>

\* A text holding an end marker but no start marker was handed over.
C3_Witness ==
    /\ Called
    /\ ~HasStartMarker(text)
    /\ \E k \in 0..Len(text) : OccursAt(text, end_marker, k)
    /\ res.exc = "MarkerNotFound"

\* C4: with the start marker there and no end marker at or after the offset
\* just past it, the extractor fails with MarkerNotFound naming the end
\* marker; an end marker before that offset does not count.
C4_NoEndMarkerAfter ==
    (Called /\ HasStartMarker(text) /\ ~HasEndMarkerAfter(text))
    => /\ res.exc = "MarkerNotFound"
       /\ OccursAt(res.val, NamesEndMarker, 0)
       /\ res.calls = <<"find start", "find end">>

\* The only end marker of the text lies before the start marker.
C4_Witness ==
    /\ Called
    /\ HasStartMarker(text)
    /\ ~HasEndMarkerAfter(text)
    /\ \E k \in 0..Len(text) : OccursAt(text, end_marker, k)
    /\ res.exc = "MarkerNotFound"

\* C5: with both markers found, a repaired slice that is not valid JSON makes
\* the extractor fail with InvalidData carrying the repaired slice and return
\* nothing; and InvalidData is raised in no other case.
C5_InvalidData ==
    Called =>
       /\ (HasEndMarkerAfter(text) /\ json_loads(RepairedContent(text)).exc = "ValueError")
            => (res.exc = "InvalidData" /\ res.val = RepairedContent(text))
       /\ res.exc = "InvalidData"
            => (/\ HasEndMarkerAfter(text)
                /\ json_loads(RepairedContent(text)).exc = "ValueError")

\* The end marker came before the object was closed: the repaired slice, a
\* text of some length, was refused.
C5_Witness ==
    /\ Called
    /\ res.exc = "InvalidData"
    /\ Len(res.val) > 8
    /\ res.val[Len(res.val)] = "}"

-----------------------------------------------------------------------------
(* What the catalogue's contract says, stated on pages and bodies *)

\* v.k when v is a mapping that has k, None otherwise.
Field(v, k) == IF IsDict(v) /\ HasKey(v[2], k) THEN Lookup(v[2], k) ELSE PyNone

\* The items of v when v is an array, none otherwise.
Items(v) == IF Tag(v) = "arr" THEN v[2] ELSE <<>>

\* The id of a raw channel entry: its '_id'.'$oid', None when missing.
EntryId(data) == Field(Field(data, <<"_","i","d">>), <<"$","o","i","d">>)

\* The raw brand entries of a page's state: content.genres.brands, none when
\* absent at any level.
PageBrands(state) == Items(Field(Field(Field(state, <<"c","o","n","t","e","n","t">>), <<"g","e","n","r","e","s">>), <<"b","r","a","n","d","s">>))

BrandsPresent(state) ==
    /\ HasKey(state[2], <<"c","o","n","t","e","n","t">>)
    /\ IsDict(Field(state, <<"c","o","n","t","e","n","t">>))
    /\ HasKey(Field(state, <<"c","o","n","t","e","n","t">>)[2], <<"g","e","n","r","e","s">>)
    /\ IsDict(Field(Field(state, <<"c","o","n","t","e","n","t">>), <<"g","e","n","r","e","s">>))
    /\ HasKey(Field(Field(state, <<"c","o","n","t","e","n","t">>), <<"g","e","n","r","e","s">>)[2], <<"b","r","a","n","d","s">>)

\* The listing URL of a raw brand entry.
BrandUrl(entry) == base_url \o <<"/","c","/","m","/","j","s","o","n","/","g","e","n","r","e","/","?","p","a","r","a",
       "m","=">> \o PyStr(Field(entry, <<"p","a","r","a","m">>))

WellFormedBrand(entry) ==
    IsDict(entry) /\ {entry[2][n][1] : n \in 1..Len(entry[2])} = BrandFields

\* A listing body that is JSON with a channels array.
WellFormedListing(body) ==
    /\ ~Failed(json_loads(body))
    /\ Tag(Field(json_loads(body).val, <<"c","h","a","n","n","e","l","s">>)) = "arr"

ListedEntries(body) ==
    IF Failed(json_loads(body)) THEN <<>>
    ELSE Items(Field(json_loads(body).val, <<"c","h","a","n","n","e","l","s">>))

\* The raw channel entries server lists, brands in page order and each
\* brand's channels in listing order, up to the first brand or listing that
\* is malformed; complete tells that none was.
RECURSIVE Enumeration(_, _, _, _)
Enumeration(server, brands, n, items) ==
    IF n > Len(brands) THEN [items |-> items, complete |-> TRUE]
    ELSE IF ~WellFormedBrand(brands[n])
         \/ ~WellFormedListing(requests_get(server, BrandUrl(brands[n])))
    THEN [items |-> items, complete |-> FALSE]
    ELSE Enumeration(server, brands, n + 1,
                     items \o ListedEntries(requests_get(server, BrandUrl(brands[n]))))

PageDecodes(server) == ~Failed(_parse_configuration_from_source(server.root))

Catalogue(server) ==
    Enumeration(server,
                PageBrands(_parse_configuration_from_source(server.root).val), 1, <<>>)

Matches(items, channel_id) ==
    {n \in 1..Len(items) : PyEq(EntryId(items[n]), channel_id)}

FirstMatch(items, channel_id) ==
    CHOOSE n \in Matches(items, channel_id) :
        \A m \in Matches(items, channel_id) : n <= m

\* C1: get_channel_by_id(channel_id) returns the first Channel, in the order
\* of Service.channels, whose id equals channel_id, and None when no
\* enumerated Channel has that id.
C1_FirstMatchOrNone ==
    (ret.op = "get_channel_by_id" /\ PageDecodes(net)) =>
        IF Matches(Catalogue(net).items, ret.arg) # {}
        THEN /\ ret.exc = "none"
             /\ ret.val = Channel(service,
                    Catalogue(net).items[FirstMatch(Catalogue(net).items, ret.arg)])
        ELSE Catalogue(net).complete => (ret.exc = "none" /\ ret.val = PyNone)

\* The same, on the catalogues where the defects of C6 and C9 do not show:
\* brands present in the page's state and every listed entry's _id, when
\* there, a mapping.
C1_OnWellFormedCatalogue ==
    (/\ ret.op = "get_channel_by_id"
     /\ PageDecodes(net)
     /\ BrandsPresent(_parse_configuration_from_source(net.root).val)
     /\ \A n \in 1..Len(Catalogue(net).items) :
            IsDict(dict_get(Catalogue(net).items[n], <<"_","i","d">>, JObj(<<>>)).val))
    => IF Matches(Catalogue(net).items, ret.arg) # {}
       THEN /\ ret.exc = "none"
            /\ ret.val = Channel(service,
                   Catalogue(net).items[FirstMatch(Catalogue(net).items, ret.arg)])
       ELSE Catalogue(net).complete => (ret.exc = "none" /\ ret.val = PyNone)

\* C6: Service._brands yields an empty sequence, without raising, when
\* content.genres.brands is absent at any level of the decoded state: its
\* first next() finds the sequence at its end.
C6_AbsentBrandsYieldNothing ==
    (/\ ret.op = "_brands next"
     /\ PageDecodes(net)
     /\ ~BrandsPresent(_parse_configuration_from_source(net.root).val))
    => (ret.exc = "StopIteration" /\ bgen.st = "finished")

\* The events of a log that are GETs of a brand listing.
ListingGets(events) ==
    {n \in 1..Len(events) : events[n][1] = "GET" /\ events[n][2] # base_url}

Yields(events, from, to) ==
    Cardinality({n \in (from + 1)..(to - 1) : events[n][1] = "yield"})

\* Every listing GET but the first comes after as many yields as the listing
\* before it has channels, and the listing fetched last has not yielded more
\* than it has.
OnlyWhenNeeded(events) ==
    /\ \A n \in 1..Len(events) :
          (events[n][1] = "GET" /\ events[n][2] = base_url) => n = 1
    /\ events # <<>> => (events[1][1] = "GET" /\ events[1][2] = base_url)
    /\ \A j \in ListingGets(events) :
          LET later == {n \in ListingGets(events) : n > j} IN
          IF later = {}
          THEN Yields(events, j, Len(events) + 1) <= Len(ListedEntries(events[j][3]))
          ELSE \E n \in later :
                  /\ \A m \in later : n <= m
                  /\ Yields(events, j, n) = Len(ListedEntries(events[j][3]))

\* C7: Service.channels is lazy.  Reading the property issues no GET; the
\* root page is fetched at the first next(); a brand's listing is fetched
\* only once every channel of the brand before it was yielded; and a lookup
\* that found its channel issued nothing after yielding it.
C7_Lazy ==
    /\ gen.st = "created" => trace = <<>>
    /\ OnlyWhenNeeded(trace)
    /\ ret.op = "get_channel_by_id" =>
          /\ OnlyWhenNeeded(ret.calls)
          /\ (ret.exc = "none" /\ ret.val # PyNone)
                => ret.calls[Len(ret.calls)] = YieldEvent(ret.val)

\* The caller stopped after the first channel of a page of two brands, the
\* first of which lists two channels: one root GET, one listing GET, one
\* yield.
C7_Witness ==
    /\ gen.st = "suspended"
    /\ Len(gen.entries) = 2
    /\ gen.bi = 1
    /\ Len(gen.chans) = 2
    /\ gen.ci = 1
    /\ Len(trace) = 3
    /\ ListingGets(trace) = {2}

\* A log that begins with its own GET of the root page and whose first
\* listing GET, when it has one, comes second and is for the first brand of
\* that page.
OwnFetches(log) ==
    /\ Len(log) >= 1
    /\ log[1] = GetEvent(base_url, net.root)
    /\ \A j \in ListingGets(log) :
          (\A m \in ListingGets(log) : j <= m)
              => /\ j = 2
                 /\ log[j][2] =
                      BrandUrl(PageBrands(_parse_configuration_from_source(net.root).val)[1])

\* C10: nothing is cached.  Every enumeration and lookup that began running
\* issued its own GET of the root page first and its first listing GET for
\* the first brand of that page, so the root page was fetched once per
\* enumeration or lookup begun; and the Service holds its base url and
\* nothing else.
C10_NothingCached ==
    /\ rootGets = started
    /\ service = [url |-> base_url]
    /\ gen.st \notin {"none", "created"} => OwnFetches(trace)
    /\ bgen.st \notin {"none", "created"} => OwnFetches(btrace)
    /\ ret.op = "get_channel_by_id" => OwnFetches(ret.calls)

\* While the caller holds a suspended generator, a lookup fetched the root
\* page and the first brand's listing again.
C10_Witness ==
    /\ gen.st = "suspended"
    /\ ListingGets(trace) # {}
    /\ started = 2
    /\ rootGets = 2
    /\ ret.op = "get_channel_by_id"
    /\ ListingGets(ret.calls) # {}

\* The sweeper URL of a channel.
SweeperUrl(channel) ==
    base_url \o <<"/","s","w","e","e","p","e","r","/","j","s","o","n","/","f","e","t","c","h","/","?",
       "u","c","o","i","d","=">> \o PyStr(EntryId(ChannelData(channel)))

\* C8: every read of Channel.media_uri issues exactly one GET, of
\* <service.url>/sweeper/json/fetch/?ucoid=<id>, and returns the response's
\* creative.audio, None when creative or audio is missing; n reads issue n
\* GETs and each read answers from its own response.
C8_OneGetPerRead ==
    /\ sweepGets = reads
    /\ ret.op = "media_uri" =>
          /\ Len(ret.calls) = 1
          /\ ret.calls[1][1] = "GET"
          /\ ret.calls[1][2] = SweeperUrl(held)
          /\ (/\ ~Failed(json_loads(ret.calls[1][3]))
              /\ IsDict(json_loads(ret.calls[1][3]).val)
              /\ IsDict(dict_get(json_loads(ret.calls[1][3]).val, <<"c","r","e","a","t","i","v","e">>, JObj(<<>>)).val))
             => /\ ret.exc = "none"
                /\ ret.val = Field(Field(json_loads(ret.calls[1][3]).val, <<"c","r","e","a","t","i","v","e">>), <<"a","u","d","i","o">>)

\* The same, for the channels whose id can be read (C9).
C8_WhenIdReadable ==
    (ret.op = "media_uri" /\ ~Failed(id(held))) =>
          /\ Len(ret.calls) = 1
          /\ ret.calls[1][1] = "GET"
          /\ ret.calls[1][2] = SweeperUrl(held)
          /\ (/\ ~Failed(json_loads(ret.calls[1][3]))
              /\ IsDict(json_loads(ret.calls[1][3]).val)
              /\ IsDict(dict_get(json_loads(ret.calls[1][3]).val, <<"c","r","e","a","t","i","v","e">>, JObj(<<>>)).val))
             => /\ ret.exc = "none"
                /\ ret.val = Field(Field(json_loads(ret.calls[1][3]).val, <<"c","r","e","a","t","i","v","e">>), <<"a","u","d","i","o">>)

\* C9: for every raw entry that is a mapping, Channel.id, Channel.name and
\* Channel.description never fail: each returns the projected field, None
\* when it is missing, and issues no network call.
C9_ProjectionsNeverFail ==
    /\ (ret.op = "id" /\ IsDict(ChannelData(held))) =>
          (ret.exc = "none" /\ ret.val = EntryId(ChannelData(held)) /\ ret.calls = <<>>)
    /\ (ret.op = "name" /\ IsDict(ChannelData(held))) =>
          (ret.exc = "none" /\ ret.val = Field(ChannelData(held), <<"n","a","m","e">>) /\ ret.calls = <<>>)
    /\ (ret.op = "description" /\ IsDict(ChannelData(held))) =>
          (/\ ret.exc = "none"
           /\ ret.val = Field(ChannelData(held), <<"d","e","s","c","r","i","p","t","i","o","n">>)
           /\ ret.calls = <<>>)

=============================================================================
